---- MODULE Spec2Model ----
(***************************************************************************)
(* Model of marble_maze_gen_1.py: the piece builders of the marble maze    *)
(* and the Blender scene they drive.                                       *)
(*                                                                         *)
(* The scene is the set of live objects (objs), the active object, the     *)
(* interaction mode and the set of objects in edit mode.  Every bpy        *)
(* operator used by the script is an operator on a "world" record; the     *)
(* script's functions are composed from them in source order.  Lengths     *)
(* and coordinates are integers in units of 1/10000 (0.45 is 4500).        *)
(* A Python exception is the field exc of the world: once it is set every  *)
(* later operator is skipped, as the interpreter unwinds to the caller.    *)
(***************************************************************************)
EXTENDS Integers, Sequences, FiniteSets, TLC

\* Number of top-level calls the driver makes.
MaxCalls == 2

VARIABLES
    objs,      \* live objects: id -> record
    active,    \* C.view_layer.objects.active (0: none)
    mode,      \* "OBJECT" or "EDIT"
    edit,      \* ids of the objects in edit mode
    nextId,    \* next object identity handed out by the host
    log,       \* host operations of the current top-level call, in order
    pc,        \* position inside create_track / create_end_collector
    frame,     \* local variables of the running builder
    cur,       \* the current (or last) top-level call: fn, name, loc
    pre,       \* objs when the current top-level call began
    ret,       \* result of the last completed call
    finished,  \* pieces returned by a builder: id -> builder
    calls,     \* top-level calls made so far
    mainpc     \* position inside main (0: main is not running)

vars == <<objs, active, mode, edit, nextId, log, pc, frame, cur, pre, ret,
          finished, calls, mainpc>>

----------------------------------------------------------------------------
(* Host: names *)

Digit(d) == <<"0", "1", "2", "3", "4", "5", "6", "7", "8", "9">>[d + 1]

\* Blender's numeric suffix: ".001", ".002", ...
Suffix(n) == "." \o Digit((n \div 100) % 10) \o Digit((n \div 10) % 10) \o Digit(n % 10)

RECURSIVE FirstFree(_, _, _)
FirstFree(base, used, n) ==
    IF (base \o Suffix(n)) \notin used THEN base \o Suffix(n)
    ELSE FirstFree(base, used, n + 1)

\* The host never lets two objects share a name: a taken name gets the
\* first free numeric suffix.
UniqueName(base, used) == IF base \notin used THEN base ELSE FirstFree(base, used, 1)

NamesOf(o) == {o[i].name : i \in DOMAIN o}

----------------------------------------------------------------------------
(* Host: the world record and its log *)

World == [objs |-> objs, active |-> active, mode |-> mode, edit |-> edit,
          nextId |-> nextId, log |-> log, exc |-> "none", rv |-> 0]

Ev(op, tgt, sec, pn, sn) == [op |-> op, tgt |-> tgt, sec |-> sec, pn |-> pn, sn |-> sn]

Raise(w, e) == [w EXCEPT !.exc = e, !.rv = 0]

Selected(w) == {i \in DOMAIN w.objs : w.objs[i].sel}

\* Appends tag to the modification history of the objects ids.
Touch(o, ids, tag) ==
    [i \in DOMAIN o |-> IF i \in ids THEN [o[i] EXCEPT !.hist = Append(@, tag)] ELSE o[i]]

\* Reading handle.name: 0 is Python's int 0 (no attribute name), an id that is
\* no longer live is a removed StructRNA.
NameErr(w, h) ==
    IF h = 0 THEN "AttributeError"
    ELSE IF h \notin DOMAIN w.objs THEN "ReferenceError"
    ELSE "none"

----------------------------------------------------------------------------
(* Host: bpy operators *)

ZMod(loc) == <<loc[1], loc[2], ((loc[3] * 3) \div 2) + 7500>>

\* primitive_add, with a plausible slip: the objects selected before stay
\* selected.
primitive_add_keepsel(w, prim, loc) ==
    IF w.exc # "none" THEN w
    ELSE LET id  == w.nextId
             new == [name |-> UniqueName(prim, NamesOf(w.objs)), type |-> "MESH",
                     prim |-> prim, loc |-> loc, sel |-> TRUE, role |-> "NONE",
                     shape |-> "NONE", friction |-> 0, hist |-> <<>>, parts |-> {}]
         IN  [w EXCEPT !.objs = [i \in DOMAIN w.objs \cup {id} |->
                                    IF i = id THEN new ELSE w.objs[i]],
                       !.active = id,
                       !.nextId = id + 1,
                       !.log = Append(@, Ev("add", {id}, 0, new.name, ""))]

\* O.mesh.primitive_*_add in object mode: the new object gets the host's
\* default name (made unique), every other object is deselected, the new
\* object is selected and active.
primitive_add(w, prim, loc) ==
    IF w.exc # "none" THEN w
    ELSE LET id  == w.nextId
             new == [name |-> UniqueName(prim, NamesOf(w.objs)), type |-> "MESH",
                     prim |-> prim, loc |-> loc, sel |-> TRUE, role |-> "NONE",
                     shape |-> "NONE", friction |-> 0, hist |-> <<>>, parts |-> {}]
         IN  [w EXCEPT !.objs = [i \in DOMAIN w.objs \cup {id} |->
                                    IF i = id THEN new ELSE [w.objs[i] EXCEPT !.sel = FALSE]],
                       !.active = id,
                       !.nextId = id + 1,
                       !.log = Append(@, Ev("add", {id}, 0, new.name, ""))]

\* O.transform.resize / rotate: in object mode on the selected objects, in
\* edit mode on the meshes being edited.
transform(w, kind) ==
    IF w.exc # "none" THEN w
    ELSE IF w.mode = "OBJECT"
         THEN [w EXCEPT !.objs = Touch(@, Selected(w), kind),
                        !.log = Append(@, Ev(kind, Selected(w), 0, "", ""))]
         ELSE [w EXCEPT !.objs = Touch(@, w.edit, "mesh_" \o kind),
                        !.log = Append(@, Ev("mesh_" \o kind, w.edit, 0, "", ""))]

\* O.transform.translate(value = d)
transform_translate(w, d) ==
    IF w.exc # "none" THEN w
    ELSE IF w.mode = "OBJECT"
         THEN [w EXCEPT !.objs = [i \in DOMAIN w.objs |->
                                     IF w.objs[i].sel
                                     THEN [w.objs[i] EXCEPT
                                             !.loc = <<@[1] + d[1], @[2] + d[2], @[3] + d[3]>>,
                                             !.hist = Append(@, "translate")]
                                     ELSE w.objs[i]],
                        !.log = Append(@, Ev("translate", Selected(w), 0, "", ""))]
         ELSE [w EXCEPT !.objs = Touch(@, w.edit, "mesh_translate"),
                        !.log = Append(@, Ev("mesh_translate", w.edit, 0, "", ""))]

\* O.object.mode_set: needs an active object; entering edit mode takes the
\* active object and the selected meshes with it.
mode_set(w, m) ==
    IF w.exc # "none" THEN w
    ELSE IF w.active = 0 THEN Raise(w, "RuntimeError")
    ELSE IF m = "EDIT"
         THEN [w EXCEPT !.mode = "EDIT",
                        !.edit = {w.active} \cup {i \in Selected(w) : w.objs[i].type = "MESH"}]
         ELSE [w EXCEPT !.mode = "OBJECT", !.edit = {}]

\* A mesh operator (inset, delete faces, bisect): acts on the meshes in edit
\* mode.
mesh_op(w, kind) ==
    IF w.exc # "none" THEN w
    ELSE IF w.mode # "EDIT" THEN Raise(w, "RuntimeError")
    ELSE [w EXCEPT !.objs = Touch(@, w.edit, kind),
                   !.log = Append(@, Ev(kind, w.edit, 0, "", ""))]

\* O.object.delete: removes every selected object.
object_delete(w) ==
    IF w.exc # "none" THEN w
    ELSE IF w.mode # "OBJECT" THEN Raise(w, "RuntimeError")
    ELSE LET gone == Selected(w)
         IN  [w EXCEPT !.objs = [i \in DOMAIN w.objs \ gone |-> w.objs[i]],
                       !.active = IF w.active \in gone THEN 0 ELSE w.active,
                       !.log = Append(@, Ev("delete", gone, 0, "", ""))]

\* O.rigidbody.object_add(type): gives the active object a rigid body of
\* the type, with the host's default shape and friction when it had none.
rigidbody_object_add(w, type) ==
    IF w.exc # "none" THEN w
    ELSE IF w.active = 0 THEN Raise(w, "RuntimeError")
    ELSE IF w.objs[w.active].type # "MESH" THEN Raise(w, "RuntimeError")
    ELSE LET a == w.active
             fresh == w.objs[a].role = "NONE"
         IN  [w EXCEPT !.objs[a].role = type,
                       !.objs[a].shape = IF fresh THEN "CONVEX_HULL" ELSE @,
                       !.objs[a].friction = IF fresh THEN 5000 ELSE @,
                       !.objs[a].hist = Append(@, "rigidbody"),
                       !.log = Append(@, Ev("rigidbody", {a}, 0, "", ""))]

\* obj.name = name
set_name(w, id, name) ==
    [w EXCEPT !.objs[id].name = UniqueName(name, NamesOf(w.objs) \ {w.objs[id].name}),
              !.log = Append(@, Ev("rename", {id}, 0, name, ""))]

----------------------------------------------------------------------------
(* The script's helpers *)

\* get_object: the object of that name, 0 when there is none.
get_object(w, obj_name) ==
    IF \E i \in DOMAIN w.objs : w.objs[i].name = obj_name
    THEN CHOOSE i \in DOMAIN w.objs : w.objs[i].name = obj_name
    ELSE 0

\* select_object: get_object's 0 has no select_set.
select_object(w, obj_name) ==
    IF w.exc # "none" THEN w
    ELSE LET obj == get_object(w, obj_name)
         IN  IF obj = 0 THEN Raise(w, "AttributeError")
             ELSE [w EXCEPT !.objs[obj].sel = TRUE,
                            !.log = Append(@, Ev("select", {obj}, 0, obj_name, "")),
                            !.rv = obj]

\* select_object(h.name) for a handle h
select_handle(w, h) ==
    IF w.exc # "none" THEN w
    ELSE IF NameErr(w, h) # "none" THEN Raise(w, NameErr(w, h))
    ELSE select_object(w, w.objs[h].name)

select_all_meshes(w) ==
    IF w.exc # "none" THEN w
    ELSE [w EXCEPT !.objs = [i \in DOMAIN w.objs |->
                                IF w.objs[i].type = "MESH"
                                THEN [w.objs[i] EXCEPT !.sel = TRUE] ELSE w.objs[i]],
                   !.log = Append(@, Ev("select_all", {}, 0, "", ""))]

deselect_all_meshes(w) ==
    IF w.exc # "none" THEN w
    ELSE [w EXCEPT !.objs = [i \in DOMAIN w.objs |->
                                IF w.objs[i].type = "MESH"
                                THEN [w.objs[i] EXCEPT !.sel = FALSE] ELSE w.objs[i]],
                   !.log = Append(@, Ev("deselect_all", {}, 0, "", ""))]

remove_all_meshes(w) == object_delete(select_all_meshes(w))

\* The loop "for obj in C.selected_objects: if MESH and obj.name == default:
\* obj.name = name; break", and the value obj has after it: the renamed
\* object, else the last object iterated (primitive_add leaves exactly one
\* object selected); with nothing selected obj is unbound.
rename_selected(w, default, name) ==
    IF w.exc # "none" THEN w
    ELSE LET sel   == Selected(w)
             match == {i \in sel : w.objs[i].type = "MESH" /\ w.objs[i].name = default}
         IN  IF sel = {} THEN Raise(w, "UnboundLocalError")
             ELSE IF match # {}
                  THEN LET m == CHOOSE i \in match : TRUE
                       IN  [set_name(w, m, name) EXCEPT !.rv = m]
                  ELSE [w EXCEPT !.rv = CHOOSE i \in sel : TRUE]

\* The value a function returns, unless an exception is on its way up.
Return(w, v) == IF w.exc # "none" THEN w ELSE [w EXCEPT !.rv = v]

\* bool_meshes: a Boolean modifier on mesh_1 with mesh_2 as its operand,
\* applied at once on mesh_1 as the active object.
bool_meshes(w, mesh_1, mesh_2, bool_op) ==
    IF w.exc # "none" THEN w
    ELSE IF NameErr(w, mesh_1) # "none" THEN Raise(w, NameErr(w, mesh_1))
    ELSE IF NameErr(w, mesh_2) # "none" THEN Raise(w, NameErr(w, mesh_2))
    ELSE LET m2 == w.objs[mesh_2]
             merged == IF bool_op = "UNION"
                       THEN {[name |-> m2.name, prim |-> m2.prim, loc |-> m2.loc]} \cup m2.parts
                       ELSE {}
         IN  [w EXCEPT !.active = mesh_1,
                       !.objs[mesh_1].hist = Append(@, bool_op),
                       !.objs[mesh_1].parts = @ \cup merged,
                       !.log = Append(@, Ev(bool_op, {mesh_1}, mesh_2,
                                            w.objs[mesh_1].name, m2.name))]

\* unionize_meshes, with a plausible slip: the delete is left out.
unionize_meshes_nodelete(w, mesh_1, mesh_2) ==
    LET w1 == select_handle(w, mesh_1)
        w2 == bool_meshes(w1, mesh_1, mesh_2, "UNION")
        w3 == deselect_all_meshes(w2)
        w4 == select_handle(w3, mesh_2)
    IN  Return(w4, mesh_1)

\* unionize_meshes
unionize_meshes(w, mesh_1, mesh_2) ==
    LET w1 == select_handle(w, mesh_1)
        w2 == bool_meshes(w1, mesh_1, mesh_2, "UNION")
        w3 == deselect_all_meshes(w2)
        w4 == select_handle(w3, mesh_2)
        w5 == object_delete(w4)
    IN  Return(w5, mesh_1)

----------------------------------------------------------------------------
(* The primitive factories *)

create_plane(w, name, loc_vec) ==
    LET w1 == primitive_add(w, "Plane", ZMod(loc_vec))
        w2 == transform(w1, "resize")
    IN  rename_selected(w2, "Plane", name)

create_circle(w, name, loc_vec) ==
    LET w1 == primitive_add(w, "Circle", ZMod(loc_vec))
        w2 == transform(w1, "resize")
    IN  rename_selected(w2, "Circle", name)

create_marble(w, name, loc_vec) ==
    LET w1 == primitive_add(w, "Sphere", ZMod(loc_vec))
        w2 == transform(w1, "resize")
        w3 == rename_selected(w2, "Sphere", name)
        w4 == rigidbody_object_add(w3, "ACTIVE")
    IN  Return(w4, w3.rv)

create_cylinder(w, name, loc_vec) ==
    LET w1 == primitive_add(w, "Cylinder", ZMod(loc_vec))
    IN  rename_selected(w1, "Cylinder", name)

----------------------------------------------------------------------------
(* create_support and create_start_funnel *)

\* friction of a support, 0.1
SupportFriction == 1000

\* C.object.rigid_body.collision_shape = 'MESH'; .friction = 0.1
set_rigid_body(w, shape, friction) ==
    IF w.exc # "none" THEN w
    ELSE IF w.active = 0 THEN Raise(w, "AttributeError")
    ELSE [w EXCEPT !.objs[w.active].shape = shape,
                   !.objs[w.active].friction = friction]

\* Lines 238-262: both caps are inset (the top one is pushed down) and the
\* cap faces deleted.
open_caps(w) ==
    LET w1 == mode_set(w, "EDIT")
        w2 == mesh_op(w1, "inset")
        w3 == mesh_op(w2, "inset")
        w4 == transform_translate(w3, <<0, 0, -15000>>)
        w5 == mesh_op(w4, "inset")
        w6 == mesh_op(w5, "inset")
        w7 == mesh_op(w6, "delete_face")
    IN  mode_set(w7, "OBJECT")

\* tag_static, with a plausible slip: the collision shape is left at the
\* host's default.
tag_static_noshape(w) ==
    LET w1 == rigidbody_object_add(w, "PASSIVE")
    IN  set_rigid_body(w1, IF w1.exc = "none" /\ w1.active # 0
                           THEN w1.objs[w1.active].shape ELSE "NONE", SupportFriction)

\* Lines 265-267
tag_static(w) ==
    set_rigid_body(rigidbody_object_add(w, "PASSIVE"), "MESH", SupportFriction)

\* create_support, with a plausible slip: the rigid body is added before
\* the caps are opened.
create_support_tag_first(w, name, loc_vec) ==
    IF w.exc # "none" THEN w
    ELSE IF name = "Cylinder"
    THEN [w EXCEPT !.rv = 0, !.log = Append(@, Ev("return0", {}, 0, name, ""))]
    ELSE LET w1 == create_cylinder(w, name, loc_vec)
             w2 == transform(w1, "resize")
             w3 == tag_static(w2)
             w4 == open_caps(w3)
             w5 == deselect_all_meshes(w4)
         IN  Return(w5, w1.rv)

create_support(w, name, loc_vec) ==
    IF w.exc # "none" THEN w
    ELSE IF name = "Cylinder"
    THEN [w EXCEPT !.rv = 0, !.log = Append(@, Ev("return0", {}, 0, name, ""))]
    ELSE LET w1 == create_cylinder(w, name, loc_vec)
             w2 == transform(w1, "resize")
             w3 == open_caps(w2)
             w4 == tag_static(w3)
             w5 == deselect_all_meshes(w4)
         IN  Return(w5, w1.rv)

create_start_funnel(w, name, loc_vec) ==
    LET w1 == create_support(w, name, loc_vec)
        funnel == w1.rv
        w2 == mode_set(w1, "OBJECT")
        w3 == IF w2.exc = "none" /\ NameErr(w2, funnel) # "none"
              THEN Raise(w2, NameErr(w2, funnel)) ELSE w2
        w4 == mode_set(w3, "EDIT")
        w5 == transform(w4, "resize")
        w6 == mode_set(w5, "OBJECT")
    IN  Return(w6, funnel)

----------------------------------------------------------------------------
(* Calls: bookkeeping shared by the driver, main and the builders *)

Restrict(f, S) == [i \in DOMAIN f \cap S |-> f[i]]

Builders == {"create_support", "create_start_funnel", "create_track", "create_end_collector"}

NoFrame == [piece |-> 0, cutter |-> 0, e0 |-> 0, e1 |-> 0, p0 |-> 0, bottom |-> 0, c0 |-> 0]

\* The world a top-level call starts in: the scene as it is, an empty log.
Fresh == [World EXCEPT !.log = <<>>]

Commit(w) ==
    /\ objs' = w.objs
    /\ active' = w.active
    /\ mode' = w.mode
    /\ edit' = w.edit
    /\ nextId' = w.nextId
    /\ log' = w.log

Raised(w) == [status |-> "raised", exc |-> w.exc, obj |-> 0]

Result(w) ==
    IF w.exc # "none" THEN Raised(w)
    ELSE IF w.rv = 0 THEN [status |-> "returned0", exc |-> "none", obj |-> 0]
    ELSE [status |-> "ok", exc |-> "none", obj |-> w.rv]

\* A call that runs to its end in one step: fn(name, loc) took the scene to w.
Whole(fn, name, loc, w) ==
    /\ Commit(w)
    /\ cur' = [fn |-> fn, name |-> name, loc |-> loc]
    /\ pre' = objs
    /\ ret' = Result(w)
    /\ finished' = [i \in (DOMAIN finished \cap DOMAIN w.objs)
                          \cup (IF fn \in Builders /\ Result(w).status = "ok"
                                THEN {w.rv} ELSE {}) |->
                      IF i \in DOMAIN finished THEN finished[i] ELSE fn]
    /\ UNCHANGED <<pc, frame>>

\* The first statement of a builder that runs statement by statement.
Enter(fn, name, loc, w, first) ==
    /\ Commit(w)
    /\ cur' = [fn |-> fn, name |-> name, loc |-> loc]
    /\ pre' = objs
    /\ frame' = [NoFrame EXCEPT !.piece = w.rv]
    /\ pc' = first
    /\ finished' = Restrict(finished, DOMAIN w.objs)
    /\ UNCHANGED ret

\* One later statement of it: an exception ends the call, and main with it.
Stmt(at, nxt, w, fr) ==
    /\ pc = at
    /\ Commit(w)
    /\ finished' = Restrict(finished, DOMAIN w.objs)
    /\ IF w.exc # "none"
       THEN /\ pc' = "idle"
            /\ frame' = NoFrame
            /\ ret' = Raised(w)
            /\ mainpc' = 0
       ELSE /\ pc' = nxt
            /\ frame' = fr
            /\ UNCHANGED <<ret, mainpc>>
    /\ UNCHANGED <<cur, pre, calls>>

\* "return piece"
ReturnPiece(at) ==
    /\ pc = at
    /\ pc' = "idle"
    /\ frame' = NoFrame
    /\ ret' = [status |-> "ok", exc |-> "none", obj |-> frame.piece]
    /\ finished' = [i \in DOMAIN finished \cup {frame.piece} |->
                      IF i = frame.piece THEN cur.fn ELSE finished[i]]
    /\ UNCHANGED <<objs, active, mode, edit, nextId, log, cur, pre, calls, mainpc>>

----------------------------------------------------------------------------
(* create_track *)

\* track_length, with a plausible slip: 2.45 mistyped as 2.54
track_length_wrong == 24500 + 900

track_length == 24500

\* [a - b for a, b in zip(loc_vec, [0, dy, dz])]
Minus(loc, dy, dz) == <<loc[1], loc[2] - dy, loc[3] - dz>>

E0Loc(loc) == Minus(loc, track_length - 4500, 0)

E1Loc(loc) == Minus(loc, 4500 - track_length, 0)

\* line 359
Track359(w, name, loc) == create_support(w, name, loc)

\* lines 362-365
Track362 ==
    LET w1 == select_handle(World, frame.piece)
        w2 == mode_set(w1, "EDIT")
    IN  Stmt("T362", "T366", w2, frame)

\* lines 366-367
Track366 ==
    LET w1 == mesh_op(World, "bisect")
        w2 == mode_set(w1, "OBJECT")
    IN  Stmt("T366", "T369", w2, frame)

\* lines 369-371
Track369 ==
    LET w1 == transform(World, "rotate")
        w2 == transform(w1, "resize")
        w3 == transform_translate(w2, <<0, -2500, 0>>)
    IN  Stmt("T369", "T373", w3, frame)

\* lines 373-376
Track373 ==
    LET w1 == create_cylinder(World, cur.name \o "_hole_cutter", cur.loc)
        w2 == select_handle(w1, w1.rv)
        w3 == transform(w2, "rotate")
        w4 == transform(w3, "resize")
    IN  Stmt("T373", "T379", w4, [frame EXCEPT !.cutter = w1.rv])

\* line 379
Track379 ==
    LET w1 == create_support(World, cur.name \o "_e0", E0Loc(cur.loc))
    IN  Stmt("T379", "T380", w1, [frame EXCEPT !.e0 = w1.rv])

\* line 380
Track380 ==
    LET w1 == create_support(World, cur.name \o "_e1", E1Loc(cur.loc))
    IN  Stmt("T380", "T383", w1, [frame EXCEPT !.e1 = w1.rv])

\* select the cutter, cut it out of mesh_1, deselect
Bore(w, mesh_1, cutter) ==
    deselect_all_meshes(bool_meshes(select_handle(w, cutter), mesh_1, cutter, "DIFFERENCE"))

\* Discard, with a plausible slip: the cutter is selected but not deleted.
Discard_keep(w, cutter) == select_handle(w, cutter)

\* select the cutter, delete
Discard(w, cutter) == object_delete(select_handle(w, cutter))

\* lines 383-385
Track383 == Stmt("T383", "T387", Bore(World, frame.e0, frame.cutter), frame)

\* lines 387-389
Track387 == Stmt("T387", "T391", Bore(World, frame.e1, frame.cutter), frame)

\* lines 391-392
Track391 == Stmt("T391", "T395", Discard(World, frame.cutter), frame)

\* line 395
Track395 == Stmt("T395", "T396", unionize_meshes(World, frame.piece, frame.e0), frame)

\* line 396
Track396 == Stmt("T396", "T399", unionize_meshes(World, frame.piece, frame.e1), frame)

\* lines 399-401
Track399 ==
    LET w1 == create_plane(World, cur.name \o "_p0", E0Loc(cur.loc))
        w2 == transform(w1, "rotate")
        w3 == rigidbody_object_add(w2, "PASSIVE")
    IN  Stmt("T399", "T403", w3, [frame EXCEPT !.p0 = w1.rv])

\* line 403
Track403 == Stmt("T403", "T405", unionize_meshes(World, frame.piece, frame.p0), frame)

\* line 405
Track405 == ReturnPiece("T405")

----------------------------------------------------------------------------
(* create_end_collector *)

\* line 304
Collector304(w, name, loc) == create_support(w, name, loc)

\* lines 307-312
Collector307 ==
    LET w1 == create_cylinder(World, cur.name \o "_hole_cutter", cur.loc)
        w2 == select_handle(w1, w1.rv)
        w3 == transform(w2, "rotate")
        w4 == transform(w3, "resize")
        w5 == transform_translate(w4, <<0, 2000, -1500>>)
        w6 == deselect_all_meshes(w5)
    IN  Stmt("E307", "E314", w6, [frame EXCEPT !.cutter = w1.rv])

\* lines 314-316
Collector314 == Stmt("E314", "E317", Bore(World, frame.piece, frame.cutter), frame)

\* lines 317-318
Collector317 == Stmt("E317", "E321", Discard(World, frame.cutter), frame)

\* lines 321-323
Collector321 ==
    LET w1 == create_plane(World, cur.name \o "_p0", Minus(cur.loc, 0, 2000))
        w2 == transform(w1, "rotate")
        w3 == rigidbody_object_add(w2, "PASSIVE")
    IN  Stmt("E321", "E325", w3, [frame EXCEPT !.p0 = w1.rv])

\* line 325
Collector325 == Stmt("E325", "E328", unionize_meshes(World, frame.piece, frame.p0), frame)

\* lines 328-332
Collector328 ==
    LET w1 == create_support(World, cur.name \o "_bottom", cur.loc)
        w2 == select_handle(w1, w1.rv)
        w3 == transform(w2, "resize")
        w4 == transform_translate(w3, <<0, 0, -5250>>)
        w5 == deselect_all_meshes(w4)
    IN  Stmt("E328", "E334", w5, [frame EXCEPT !.bottom = w1.rv])

\* line 334
Collector334 == Stmt("E334", "E337", unionize_meshes(World, frame.piece, frame.bottom), frame)

\* lines 337-340
Collector337 ==
    LET w1 == create_cylinder(World, cur.name \o "_c0", Minus(cur.loc, 0, 4250))
        w2 == transform(w1, "resize")
        w3 == transform(w2, "rotate")
        w4 == rigidbody_object_add(w3, "PASSIVE")
    IN  Stmt("E337", "E342", w4, [frame EXCEPT !.c0 = w1.rv])

\* line 342
Collector342 == Stmt("E342", "E346", unionize_meshes(World, frame.piece, frame.c0), frame)

\* line 346
Collector346 == ReturnPiece("E346")

----------------------------------------------------------------------------
(* The driver: the script's functions called on the scene, in any order *)

\* Names a caller asks for: an ordinary one, and the host's default name of
\* the primitive the function creates.
ReqNames(prim) == {"P_0", prim}

Locs == {<<0, 20000, 10000>>, <<10000, 0, 0>>}

Idle == pc = "idle" /\ mainpc = 0 /\ calls < MaxCalls

Called == calls' = calls + 1 /\ UNCHANGED mainpc

CallCreateCylinder ==
    \E name \in ReqNames("Cylinder"), loc \in Locs :
        Idle /\ Called /\ Whole("create_cylinder", name, loc, create_cylinder(Fresh, name, loc))

CallCreatePlane ==
    \E name \in ReqNames("Plane"), loc \in Locs :
        Idle /\ Called /\ Whole("create_plane", name, loc, create_plane(Fresh, name, loc))

CallCreateCircle ==
    \E name \in ReqNames("Circle"), loc \in Locs :
        Idle /\ Called /\ Whole("create_circle", name, loc, create_circle(Fresh, name, loc))

CallCreateMarble ==
    \E name \in ReqNames("Sphere"), loc \in Locs :
        Idle /\ Called /\ Whole("create_marble", name, loc, create_marble(Fresh, name, loc))

CallCreateSupport ==
    \E name \in ReqNames("Cylinder"), loc \in Locs :
        Idle /\ Called /\ Whole("create_support", name, loc, create_support(Fresh, name, loc))

CallCreateStartFunnel ==
    \E name \in ReqNames("Cylinder"), loc \in Locs :
        Idle /\ Called
             /\ Whole("create_start_funnel", name, loc, create_start_funnel(Fresh, name, loc))

CallCreateTrack ==
    \E name \in ReqNames("Cylinder"), loc \in Locs :
        Idle /\ Called
             /\ Enter("create_track", name, loc, Track359(Fresh, name, loc), "T362")

CallCreateEndCollector ==
    \E name \in ReqNames("Cylinder"), loc \in Locs :
        Idle /\ Called
             /\ Enter("create_end_collector", name, loc, Collector304(Fresh, name, loc), "E307")

CallSelectObject ==
    \E name \in {"P_0", "Camera 1"} :
        Idle /\ Called /\ Whole("select_object", name, <<0, 0, 0>>, select_object(Fresh, name))

CallSelectAllMeshes ==
    Idle /\ Called /\ Whole("select_all_meshes", "", <<0, 0, 0>>, select_all_meshes(Fresh))

CallDeselectAllMeshes ==
    Idle /\ Called /\ Whole("deselect_all_meshes", "", <<0, 0, 0>>, deselect_all_meshes(Fresh))

CallRemoveAllMeshes ==
    Idle /\ Called /\ Whole("remove_all_meshes", "", <<0, 0, 0>>, remove_all_meshes(Fresh))

----------------------------------------------------------------------------
(* main *)

InMain(at) == pc = "idle" /\ mainpc = at

\* A statement of main's own; main ends when it raises.
MainOwn(w, nxt) ==
    /\ Whole("main", "", <<0, 0, 0>>, w)
    /\ mainpc' = IF w.exc # "none" THEN 0 ELSE nxt

\* A builder that main calls and that returns in the same step.
MainCall(fn, name, loc, w, nxt) ==
    /\ Whole(fn, name, loc, w)
    /\ mainpc' = IF w.exc # "none" THEN 0 ELSE nxt
    /\ UNCHANGED calls

\* try: mode_set(OBJECT) except: pass
try_mode_set(w) == IF mode_set(w, "OBJECT").exc # "none" THEN w ELSE mode_set(w, "OBJECT")

\* try: select "Camera 1", delete, unlink except: pass
try_delete_camera(w) ==
    LET cam == get_object(w, "Camera 1")
    IN  IF cam = 0 THEN w
        ELSE object_delete([w EXCEPT !.objs[cam].sel = TRUE])

\* lines 428-431: main begins
Main429 == Idle /\ calls' = calls + 1 /\ MainOwn(try_mode_set(Fresh), 434)

\* line 434
Main434 == InMain(434) /\ MainOwn(remove_all_meshes(Fresh), 444) /\ UNCHANGED calls

\* lines 443-448
Main444 == InMain(444) /\ MainOwn(try_delete_camera(Fresh), 454) /\ UNCHANGED calls

\* line 454
Main454 ==
    InMain(454)
    /\ MainCall("create_plane", "Base", <<0, 0, -5000>>,
                create_plane(Fresh, "Base", <<0, 0, -5000>>), 455)

\* line 455
Main455 == InMain(455) /\ MainOwn(rigidbody_object_add(Fresh, "PASSIVE"), 461) /\ UNCHANGED calls

\* line 461
Main461 ==
    InMain(461)
    /\ MainCall("create_support", "S_0", <<0, 0, 0>>,
                create_support(Fresh, "S_0", <<0, 0, 0>>), 464)

\* line 464
Main464 ==
    InMain(464)
    /\ MainCall("create_marble", "M_0", <<0, 0, 30000>>,
                create_marble(Fresh, "M_0", <<0, 0, 30000>>), 465)

\* line 465
Main465 ==
    InMain(465)
    /\ MainCall("create_marble", "M_1", <<0, 0, 40000>>,
                create_marble(Fresh, "M_1", <<0, 0, 40000>>), 466)

\* line 466
Main466 ==
    InMain(466)
    /\ MainCall("create_marble", "M_2", <<0, 0, 50000>>,
                create_marble(Fresh, "M_2", <<0, 0, 50000>>), 469)

\* line 469
Main469 ==
    InMain(469)
    /\ Enter("create_track", "T_0", <<0, 20000, 10000>>,
             Track359(Fresh, "T_0", <<0, 20000, 10000>>), "T362")
    /\ mainpc' = 472
    /\ UNCHANGED calls

\* line 472
Main472 ==
    InMain(472)
    /\ MainCall("create_start_funnel", "F_0", <<0, 0, 20000>>,
                create_start_funnel(Fresh, "F_0", <<0, 0, 20000>>), 475)

\* line 475
Main475 ==
    InMain(475)
    /\ Enter("create_end_collector", "E_0", <<0, 40000, 0>>,
             Collector304(Fresh, "E_0", <<0, 40000, 0>>), "E307")
    /\ mainpc' = 477
    /\ UNCHANGED calls

\* line 477
Main477 ==
    /\ InMain(477)
    /\ mainpc' = 0
    /\ cur' = [fn |-> "main", name |-> "", loc |-> <<0, 0, 0>>]
    /\ pre' = objs
    /\ UNCHANGED <<objs, active, mode, edit, nextId, log, pc, frame, ret, finished, calls>>

----------------------------------------------------------------------------
(* The scene the script finds, and the specification *)

Camera == [name |-> "Camera 1", type |-> "CAMERA", prim |-> "none", loc |-> <<0, 0, 0>>,
           sel |-> TRUE, role |-> "NONE", shape |-> "NONE", friction |-> 0,
           hist |-> <<>>, parts |-> {}]

Cube == [name |-> "Cube", type |-> "MESH", prim |-> "none", loc |-> <<0, 0, 0>>,
         sel |-> FALSE, role |-> "NONE", shape |-> "NONE", friction |-> 0,
         hist |-> <<>>, parts |-> {}]

\* Nothing, a selected camera, or a selected camera and a cube.
InitScenes == {[i \in S |-> IF i = 1 THEN Camera ELSE Cube] : S \in {{}, {1}, {1, 2}}}

Init ==
    /\ objs \in InitScenes
    /\ active = 0
    /\ mode = "OBJECT"
    /\ edit = {}
    /\ nextId = 3
    /\ log = <<>>
    /\ pc = "idle"
    /\ frame = NoFrame
    /\ cur = [fn |-> "none", name |-> "", loc |-> <<0, 0, 0>>]
    /\ pre = objs
    /\ ret = [status |-> "none", exc |-> "none", obj |-> 0]
    /\ finished = [i \in {} |-> "none"]
    /\ calls = 0
    /\ mainpc = 0

Next ==
    \/ CallCreateCylinder
    \/ CallCreatePlane
    \/ CallCreateCircle
    \/ CallCreateMarble
    \/ CallCreateSupport
    \/ CallCreateStartFunnel
    \/ CallCreateTrack
    \/ CallCreateEndCollector
    \/ CallSelectObject
    \/ CallSelectAllMeshes
    \/ CallDeselectAllMeshes
    \/ CallRemoveAllMeshes
    \/ Track362
    \/ Track366
    \/ Track369
    \/ Track373
    \/ Track379
    \/ Track380
    \/ Track383
    \/ Track387
    \/ Track391
    \/ Track395
    \/ Track396
    \/ Track399
    \/ Track403
    \/ Track405
    \/ Collector307
    \/ Collector314
    \/ Collector317
    \/ Collector321
    \/ Collector325
    \/ Collector328
    \/ Collector334
    \/ Collector337
    \/ Collector342
    \/ Collector346
    \/ Main429
    \/ Main434
    \/ Main444
    \/ Main454
    \/ Main455
    \/ Main461
    \/ Main464
    \/ Main465
    \/ Main466
    \/ Main469
    \/ Main472
    \/ Main475
    \/ Main477

Spec == Init /\ [][Next]_vars

TypeOK ==
    /\ mode \in {"OBJECT", "EDIT"}
    /\ active \in DOMAIN objs \cup {0}
    /\ \A i \in DOMAIN objs : i < nextId
    /\ calls \in 0..(MaxCalls + 1)

----------------------------------------------------------------------------
(* Vocabulary of the properties *)

Transforms == {"resize", "rotate", "translate", "mesh_resize", "mesh_rotate",
               "mesh_translate", "inset", "delete_face", "bisect"}

Booleans == {"UNION", "DIFFERENCE"}

ShapeOps == Transforms \cup Booleans

Factories == {"create_cylinder", "create_plane", "create_circle", "create_marble"}

Composite == {"create_start_funnel", "create_track", "create_end_collector"}

\* The host's default name of the primitive a function creates.
DefaultName(fn) ==
    CASE fn = "create_plane" -> "Plane"
      [] fn = "create_circle" -> "Circle"
      [] fn = "create_marble" -> "Sphere"
      [] OTHER -> "Cylinder"

\* A Solid without its selection flag.
Solid(o) == [o EXCEPT !.sel = FALSE]

\* Positions of the unions and differences in the log.
Bools == {i \in 1..Len(log) : log[i].op \in Booleans}

\* s is deleted by one of the log entries from..to.
Destroyed(s, from, to) == \E k \in from..to : log[k].op = "delete" /\ s \in log[k].tgt

Count(h, t) == Cardinality({k \in 1..Len(h) : h[k] = t})

Returned(fn) == pc = "idle" /\ cur.fn = fn /\ ret.status = "ok"

MainDone == pc = "idle" /\ mainpc = 0 /\ cur.fn = "main" /\ calls > 0

----------------------------------------------------------------------------
(* C1 *)

\* C1 as claimed: every union or difference of a builder leaves exactly one
\* survivor, the primary.  Once the operation is complete, that is before the
\* builder creates, transforms or combines anything else, the secondary has
\* been deleted; up to then the primary is live under the name it had; and
\* when the builder is back the secondary's name is free.
C1_SecondaryDestroyedAtOnce ==
    /\ \A i \in Bools : \A j \in (i + 1)..Len(log) :
          log[j].op \in ({"add", "rigidbody"} \cup ShapeOps)
              => Destroyed(log[i].sec, i + 1, j - 1)
    /\ \A i \in Bools :
          \/ \E p \in log[i].tgt : p \in DOMAIN objs /\ objs[p].name = log[i].pn
          \/ \E j \in (i + 1)..Len(log) : log[j].sec \in log[i].tgt
    /\ pc = "idle" => \A i \in Bools :
          log[i].sec \notin DOMAIN objs /\ log[i].sn \notin NamesOf(objs)

\* C1 amended: a union's secondary is deleted at once; a difference's
\* secondary (the cutter) is deleted before the builder's next union,
\* creation or transform, and until then is used only as the secondary of
\* another difference.  The primary stays live under its own name until it
\* is itself the secondary of a later union.  When the builder is back every
\* secondary is gone and its name is free.
C1_SecondaryDestroyed ==
    /\ \A i \in Bools : \A j \in (i + 1)..Len(log) :
          \/ log[j].op \in {"select", "deselect_all", "delete"}
          \/ Destroyed(log[i].sec, i + 1, j - 1)
          \/ /\ log[i].op = "DIFFERENCE"
             /\ log[j].op = "DIFFERENCE"
             /\ log[j].sec = log[i].sec
    /\ \A i \in Bools :
          \/ \E p \in log[i].tgt : p \in DOMAIN objs /\ objs[p].name = log[i].pn
          \/ \E j \in (i + 1)..Len(log) : log[j].op = "UNION" /\ log[j].sec \in log[i].tgt
    /\ pc = "idle" => \A i \in Bools :
          log[i].sec \notin DOMAIN objs /\ log[i].sn \notin NamesOf(objs)

\* create_track is back: two differences and three unions are in its log.
C1_Witness == Returned("create_track") /\ Cardinality(Bools) = 5

----------------------------------------------------------------------------
(* C9 *)

\* No log entry after a delete refers to a deleted object, and no handle of
\* a removed object was read.
NoDanglingUse ==
    /\ \A k \in 1..Len(log) : log[k].op = "delete" =>
          \A j \in (k + 1)..Len(log) :
              log[j].tgt \cap log[k].tgt = {} /\ log[j].sec \notin log[k].tgt
    /\ ret.exc # "ReferenceError"

\* In create_track the cutter is deleted after both differences and before
\* the first union.
CutterOrder ==
    cur.fn = "create_track" =>
        \A u \in Bools : log[u].op = "UNION" =>
            \E k \in 1..(u - 1) :
                /\ log[k].op = "delete"
                /\ Cardinality({d \in 1..(k - 1) :
                                   log[d].op = "DIFFERENCE" /\ log[d].sec \in log[k].tgt}) = 2

\* C9 as claimed: once a Solid has been the secondary of a union or
\* difference, no later step selects it, transforms it or uses it as an
\* operand of a boolean; no step names a destroyed Solid; the track's cutter
\* is destroyed after both bores and before the first union.
C9_SecondaryNeverReferenced ==
    /\ \A i \in Bools : \A j \in (i + 1)..Len(log) :
          log[j].op \in ({"select"} \cup ShapeOps) =>
              log[i].sec \notin log[j].tgt /\ log[j].sec # log[i].sec
    /\ NoDanglingUse
    /\ CutterOrder

\* C9 amended: once a Solid has been the secondary of a union or difference
\* it is never transformed and never the primary of a boolean; it is only
\* selected again, either to be deleted or (the track's cutter) to be the
\* secondary of the second difference, and then deleted.  No step names a
\* destroyed Solid; the track's cutter is destroyed after both bores and
\* before the first union.
C9_SecondaryOnlyCleanedUp ==
    /\ \A i \in Bools : \A j \in (i + 1)..Len(log) :
          /\ log[i].sec \in log[j].tgt => log[j].op \in {"select", "delete"}
          /\ log[j].sec = log[i].sec =>
                /\ log[i].op = "DIFFERENCE"
                /\ log[j].op = "DIFFERENCE"
                /\ cur.fn = "create_track"
    /\ NoDanglingUse
    /\ CutterOrder

\* create_end_collector is back: one difference and three unions are done.
C9_Witness == Returned("create_end_collector") /\ Cardinality(Bools) = 4

----------------------------------------------------------------------------
(* C2, C4, C6: names *)

Naming == Factories \cup Builders

\* The Solids that were live when the call began are all live and unchanged.
PreUntouched == \A i \in DOMAIN pre : i \in DOMAIN objs /\ Solid(objs[i]) = Solid(pre[i])

\* C2 as claimed: names are unique at any instant, and a factory or builder
\* call whose requested name is the name of a live Solid is rejected: it
\* creates no Solid, leaves the existing Solid unchanged and does not return
\* a Solid.
C2_CollisionRejected ==
    /\ \A i, j \in DOMAIN objs : objs[i].name = objs[j].name => i = j
    /\ (cur.fn \in Naming /\ cur.name \in NamesOf(pre)) =>
          /\ DOMAIN objs = DOMAIN pre
          /\ PreUntouched
          /\ pc = "idle" => ret.status # "ok"

\* C4 as claimed: a factory or builder call whose requested name is the
\* host's default name of the primitive it creates fails with a failure
\* value and creates or modifies no Solid.
C4_ReservedNameRejected ==
    (pc = "idle" /\ cur.fn \in (Factories \cup {"create_support"})
                 /\ cur.name = DefaultName(cur.fn)) =>
        /\ ret.status = "returned0"
        /\ DOMAIN objs = DOMAIN pre
        /\ PreUntouched

\* C6 as claimed: a primitive factory returns a handle to the Solid it has
\* just created, that Solid bears exactly the requested name and is the sole
\* selected object, whatever the scene was.
C6_FactoryReturnsNamedSolid ==
    (pc = "idle" /\ cur.fn \in Factories) =>
        /\ ret.status = "ok"
        /\ ret.obj \in DOMAIN objs \ DOMAIN pre
        /\ objs[ret.obj].name = cur.name
        /\ {i \in DOMAIN objs : objs[i].sel} = {ret.obj}

----------------------------------------------------------------------------
(* C5: failures *)

\* C5 as claimed: once a sub-step of a composite builder has failed
\* (create_support returned its failure value, or select_object did not
\* find the name), the builder creates no further Solid, applies no further
\* transform, boolean or delete, and the call does not end as a success.
C5_FailureAborts ==
    /\ cur.fn \in Composite =>
          \A i \in 1..Len(log) : log[i].op = "return0" =>
              /\ \A j \in (i + 1)..Len(log) :
                    log[j].op \notin ({"add", "delete"} \cup ShapeOps)
              /\ pc = "idle" => ret.status # "ok"
    /\ (pc = "idle" /\ cur.fn = "select_object" /\ cur.name \notin NamesOf(pre)) =>
          ret.status = "raised" /\ objs = pre

----------------------------------------------------------------------------
(* C3, C8: the physics role *)

\* C3 as claimed: every finished piece has had its role assigned exactly
\* once, and no shape-modifying step after the assignment.
C3_RoleAfterAllShaping ==
    \A i \in DOMAIN finished \cap DOMAIN objs :
        LET h == objs[i].hist
        IN  /\ Count(h, "rigidbody") = 1
            /\ h[Len(h)] = "rigidbody"

\* C3 amended: every finished piece has had its role assigned exactly once,
\* by create_support, after the caps of the support were opened and with no
\* shape-modifying step of create_support after it; the shape-modifying
\* steps that follow the assignment are those of create_start_funnel,
\* create_track and create_end_collector.
C3_RoleOnceAfterSupportShaping ==
    \A i \in DOMAIN finished \cap DOMAIN objs :
        LET h == objs[i].hist
            t == CHOOSE k \in 1..Len(h) : h[k] = "rigidbody"
        IN  /\ Count(h, "rigidbody") = 1
            /\ \E k \in 1..(t - 1) : h[k] = "delete_face"
            /\ \A k \in 1..(t - 1) : h[k] \in Transforms
            /\ finished[i] = "create_support" => t = Len(h)
            /\ finished[i] \in Composite =>
                  /\ t < Len(h)
                  /\ \A k \in (t + 1)..Len(h) : h[k] \in ShapeOps \ {"inset", "delete_face"}

\* A track is finished: its support was tagged, then bisected, transformed
\* and united with its end supports.
C3_Witness ==
    /\ Returned("create_track")
    /\ finished[ret.obj] = "create_track"
    /\ Count(objs[ret.obj].hist, "UNION") = 3

\* C8: the dynamic role is held only by the spheres create_marble makes;
\* every live finished piece (support, track, funnel, collector) is static
\* with the exact mesh as collision shape and friction 0.1; a union or a
\* difference leaves the role of its primary as it was.
C8_Roles ==
    /\ [](/\ \A i \in DOMAIN objs : objs[i].role = "ACTIVE" => objs[i].prim = "Sphere"
          /\ \A i \in DOMAIN finished \cap DOMAIN objs :
                /\ objs[i].role = "PASSIVE"
                /\ objs[i].shape = "MESH"
                /\ objs[i].friction = SupportFriction)
    /\ [][\A i \in DOMAIN objs \cap DOMAIN objs' :
             (\E k \in (Len(objs[i].hist) + 1)..Len(objs'[i].hist) :
                   objs'[i].hist[k] \in Booleans) =>
                 /\ objs'[i].role = objs[i].role
                 /\ objs'[i].shape = objs[i].shape
                 /\ objs'[i].friction = objs[i].friction]_vars

\* main has run to its end: three marbles are dynamic, the support, the
\* track, the funnel and the collector are finished and live.
C8_Witness ==
    /\ MainDone
    /\ Cardinality({i \in DOMAIN objs : objs[i].role = "ACTIVE"}) = 3
    /\ {finished[i] : i \in DOMAIN finished \cap DOMAIN objs} = Builders

----------------------------------------------------------------------------
(* C7: the end supports of a track *)

\* C7: create_track at (x, y, z) builds its end supports at y - 2.0 and
\* y + 2.0, at the x and the height of the track, and both are merged into
\* the returned track and are no longer in the scene on their own; at the
\* end of main the end supports of T_0 stand at Y = 0 and Y = 4, the
\* columns of S_0 and F_0 and of E_0.
C7_EndSupports ==
    /\ Returned("create_track") =>
          LET t == objs[ret.obj]
              at(dy) == <<cur.loc[1], cur.loc[2] + dy, ZMod(cur.loc)[3]>>
              ends == {p \in t.parts : p.prim = "Cylinder"}
          IN  /\ {p.loc : p \in ends} = {at(-20000), at(20000)}
              /\ Cardinality(ends) = 2
              /\ t.loc[1] = cur.loc[1]
              /\ t.loc[3] = ZMod(cur.loc)[3]
              /\ \A p \in ends : p.name \notin NamesOf(objs)
    /\ MainDone =>
          LET o(n) == objs[get_object(World, n)]
              xy(q) == <<q.loc[1], q.loc[2]>>
              ends == {p \in o("T_0").parts : p.name \in {"T_0_e0", "T_0_e1"}}
          IN  /\ {p.loc[2] : p \in ends} = {0, 40000}
              /\ {xy(p) : p \in ends} = {xy(o("S_0")), xy(o("E_0"))}
              /\ xy(o("F_0")) = xy(o("S_0"))

\* main has run to its end and T_0 carries its two end supports.
C7_Witness ==
    /\ MainDone
    /\ get_object(World, "T_0") # 0
    /\ Cardinality(objs[get_object(World, "T_0")].parts) = 3

----------------------------------------------------------------------------
(* C10: the frame of a builder call *)

FrameFns == Builders \cup {"create_marble"}

====
